---- MODULE Spec2Model ----
(***************************************************************************)
(* Model of the semantic-search service: the document and search routers,  *)
(* DocumentService and SearchService, over a store of four relations       *)
(* (documents, embeddings, queries, responses) reached through a           *)
(* connection pool.  Every request is an asyncio task; a task yields only  *)
(* at an await, so each action below is the code between two awaits.       *)
(* Every statement sent to the store commits on its own: the services open *)
(* no transaction (no conn.transaction() anywhere in app/services.py).     *)
(*                                                                         *)
(* Text is a sequence of code points, an upload a sequence of bytes.       *)
(***************************************************************************)
EXTENDS Integers, Sequences, FiniteSets, TLC

\* ---------------------------------------------------------------- bounds
\* Requests issued in one behaviour.
MaxRequests == 2
\* Failures the environment (store, embedding model) may inject.
MaxFaults == 1
\* Largest top_k a search request carries (the smallest is -1).
MaxTopK == 2
\* Longest text and largest chunk_size (and overlap) of a direct chunk_text call.
MaxTextLen == 3
MaxChunkSize == 4

\* ------------------------------------------------------ program constants
\* chunk_text's default chunk_size and overlap.
DefaultChunkSize == 500
DefaultOverlap == 50
\* asyncpg.create_pool's default max_size: connections in the pool.
PoolSize == 10

\* The asyncio tasks that can be in flight together.
Tasks == {1, 2}

\* Python's None (an absent timestamp); a present value x is <<x>>.
None == <<>>
Some(x) == <<x>>

\* documents.uploaded_at is "set at insert" by the store: the timestamp of the
\* insert that generated this id.
UploadedAtDefault(id) == Some(id)

Min(a, b) == IF a < b THEN a ELSE b
Max(a, b) == IF a > b THEN a ELSE b

\* ------------------------------------------------------------- bytes.decode
\* Is b a UTF-8 continuation byte (10xxxxxx)?
IsCont(b) == b >= 128 /\ b <= 191

\* The byte at position i of bs, or -1 past the end.
ByteAt(bs, i) == IF i <= Len(bs) THEN bs[i] ELSE -1

\* The length of the character a lead byte announces; 0 for a byte that can
\* start no character (a continuation byte, 0xC0, 0xC1, 0xF5..0xFF).
CharLen(b0) ==
    IF b0 < 128 THEN 1
    ELSE IF b0 >= 194 /\ b0 <= 223 THEN 2
    ELSE IF b0 >= 224 /\ b0 <= 239 THEN 3
    ELSE IF b0 >= 240 /\ b0 <= 244 THEN 4
    ELSE 0

\* A whole well-formed character starts at position i: its continuation bytes
\* are there, and it is neither overlong, a surrogate, nor above U+10FFFF.
WellFormedAt(bs, i) ==
    LET b0 == bs[i]
        b1 == ByteAt(bs, i + 1)
        n == CharLen(b0)
    IN  /\ n > 0
        /\ \A k \in 1..(n - 1) : IsCont(ByteAt(bs, i + k))
        /\ (b0 = 224 => b1 >= 160)
        /\ (b0 = 237 => b1 <= 159)
        /\ (b0 = 240 => b1 >= 144)
        /\ (b0 = 244 => b1 <= 143)
        /\ ~IsCont(ByteAt(bs, i + n))

\* The code point of the well-formed character starting at position i.
CodePoint(bs, i) ==
    LET b0 == bs[i]
        n == CharLen(b0)
        c(k) == bs[i + k] - 128
    IN  CASE n = 1 -> b0
          [] n = 2 -> (b0 - 192) * 64 + c(1)
          [] n = 3 -> (b0 - 224) * 4096 + c(1) * 64 + c(2)
          [] n = 4 -> (b0 - 240) * 262144 + c(1) * 4096 + c(2) * 64 + c(3)

\* bytes.decode("utf-8"), strict.  UTF-8 is self-synchronising: the characters
\* start at the bytes that are no continuation bytes, so the input is valid
\* when it does not begin with a continuation byte and every such position
\* starts a well-formed character; [ok |-> FALSE] is UnicodeDecodeError.
Utf8Decode(bs) ==
    LET IsStart(i) == ~IsCont(bs[i])
        starts == SelectSeq([i \in 1..Len(bs) |-> i], IsStart)
    IN  IF /\ (Len(bs) > 0 => IsStart(1))
           /\ \A k \in 1..Len(starts) : WellFormedAt(bs, starts[k])
          THEN [ok |-> TRUE,
                text |-> [k \in 1..Len(starts) |-> CodePoint(bs, starts[k])]]
          ELSE [ok |-> FALSE, text |-> <<>>]

\* ------------------------------------------------------------- chunk_text
\* Python's text[a:b]: negative indices count from the end, both are clamped.
PySlice(text, a, b) ==
    LET n == Len(text)
        na == IF a < 0 THEN Max(a + n, 0) ELSE Min(a, n)
        nb == IF b < 0 THEN Max(b + n, 0) ELSE Min(b, n)
    IN  IF nb > na THEN SubSeq(text, na + 1, nb) ELSE <<>>

\* Mutant of ChunkStep: the loop is left as soon as a chunk reaches the end
\* of the text.
ChunkStepBreakAtEnd(text, chunk_size, overlap, st) ==
    LET end == st.start + chunk_size
    IN  [start |-> end - overlap,
         chunks |-> Append(st.chunks, PySlice(text, st.start, end)),
         stop |-> end >= Len(text)]

\* Mutant of ChunkStep: the advance is forced to be at least one character.
ChunkStepGuarded(text, chunk_size, overlap, st) ==
    LET start == st.start + Max(chunk_size - overlap, 1)
    IN  [start |-> start,
         chunks |-> Append(st.chunks, PySlice(text, st.start, st.start + chunk_size)),
         stop |-> start >= Len(text)]

\* Mutant of ChunkStep: the next chunk starts where this one ends.
ChunkStepNoOverlap(text, chunk_size, overlap, st) ==
    LET end == st.start + chunk_size
    IN  [start |-> end,
         chunks |-> Append(st.chunks, PySlice(text, st.start, end)),
         stop |-> end >= Len(text)]

\* One pass of chunk_text's while loop from the loop state st.
ChunkStep(text, chunk_size, overlap, st) ==
    LET end == st.start + chunk_size
        chunk == PySlice(text, st.start, end)
        start == end - overlap
    IN  [start |-> start,
         chunks |-> Append(st.chunks, chunk),
         stop |-> start >= Len(text)]

RECURSIVE ChunkLoop(_, _, _, _)
ChunkLoop(text, chunk_size, overlap, st) ==
    IF st.stop \/ ~(st.start < Len(text)) THEN st.chunks
    ELSE ChunkLoop(text, chunk_size, overlap,
                   ChunkStep(text, chunk_size, overlap, st))

chunk_text(text, chunk_size, overlap) ==
    ChunkLoop(text, chunk_size, overlap,
              [start |-> 0, chunks |-> <<>>, stop |-> FALSE])

\* ------------------------------------------------------------- embeddings
\* The embedding model is an opaque deterministic function from text to a
\* unit vector; here the four axis vectors of the plane, picked by the text.
AxisVectors == << <<1, 0>>, <<0, 1>>, <<-1, 0>>, <<0, -1>> >>

generate_embedding(text) ==
    AxisVectors[((Len(text) + (IF text = <<>> THEN 0 ELSE text[1])) % 4) + 1]

generate_embeddings_batch(texts) ==
    [i \in 1..Len(texts) |-> generate_embedding(texts[i])]

\* The store's cosine distance operator (<=>) on unit vectors: 1 - u.v.
CosineDistance(u, v) == 1 - (u[1] * v[1] + u[2] * v[2])


\* ---------------------------------------------------------------- schemas
\* DocumentOut(id: int, filename: str, content: str, uploaded_at: datetime):
\* pydantic rejects None for the required datetime field (ValidationError).
DocumentOut(id, filename, content, uploaded_at) ==
    IF uploaded_at = None
      THEN [ok |-> FALSE, error |-> "ValidationError"]
      ELSE [ok |-> TRUE,
            value |-> [id |-> id, filename |-> filename, content |-> content,
                       uploaded_at |-> uploaded_at]]

\* SearchResult, built by search() from one row of the similarity query: the
\* model has the five declared fields and nothing else.
SearchResult(row) ==
    [score |-> row.score, chunk_text |-> row.chunk_text,
     filename |-> row.filename, chunk_index |-> row.chunk_index,
     document_id |-> row.document_id]

\* Python attribute access obj.name on a pydantic model: AttributeError when
\* the model declares no such field.
HasAttr(obj, name) == name \in DOMAIN obj

SearchResponse(query, results, total_results, response_time_ms) ==
    [query |-> query, results |-> results, total_results |-> total_results,
     response_time_ms |-> response_time_ms]

\* ------------------------------------------------------------------ inputs
\* An upload of DefaultChunkSize + 1 ASCII bytes: two chunks.
LongBody == [i \in 1..(DefaultChunkSize + 1) |-> 97 + (i % 2)]

\* The multipart files a client may upload: one two-byte character (U+00E9),
\* "h" followed by a truncated character, and the long file.
Uploads ==
    { [filename |-> "c.txt", body |-> <<195, 169>>],
      [filename |-> "d.bin", body |-> <<104, 195>>],
      [filename |-> "long.txt", body |-> LongBody] }

\* Query strings (the empty string and "q") and top_k values of a search.
Queries == { <<>>, <<113>> }
TopKs == (-1)..MaxTopK

\* Document ids a client may ask for: the first document's and the next one's.
AskedIds == {1, 2}

\* ------------------------------------------------------------------- state
VARIABLES
    documents,   \* rows {id, filename, content, uploaded_at}
    embeddings,  \* rows {id, document_id, chunk_index, chunk_text, vector}
    queries,     \* rows {id, query_text}
    responses,   \* rows {id, query_id, embedding_id, score, response_text}
    serial,      \* next generated id of each relation
    pool,        \* free connections of app.state.db
    task,        \* per asyncio task: the request, its locals, its response
    issued,      \* requests issued so far
    faults,      \* failures injected so far
    deleted,     \* history: ids whose DELETE answered 200
    chunker      \* one direct call of chunk_text: arguments and loop state

vars == <<documents, embeddings, queries, responses, serial, pool, task,
          issued, faults, deleted, chunker>>

store == <<documents, embeddings, queries, responses>>

\* A task with no request: no locals, no connection, no response.  Three
\* fields are history, not program state: rows (the rows the similarity query
\* returned), after_delete (a GET that began after a DELETE of its id answered
\* 200) and saw_deleted (the similarity query returned a row of a document
\* whose DELETE had answered 200).
IdleTask ==
    [pc |-> "idle", kind |-> "none",
     filename |-> "", body |-> <<>>, content |-> <<>>,
     document_id |-> 0, chunks |-> <<>>, vectors |-> <<>>, i |-> 0,
     query |-> <<>>, top_k |-> 0, query_embedding |-> None,
     results |-> <<>>, query_id |-> 0,
     search_response |-> None,
     rows |-> <<>>, after_delete |-> FALSE, saw_deleted |-> FALSE,
     conn |-> FALSE, error |-> "", status |-> 0, reply |-> None]

\* The store when the service starts serving: empty, or holding the long file
\* as left by an earlier complete run of process_document (document 1 with its
\* chunks as embeddings 1..n).
Ingested(file) ==
    LET content == Utf8Decode(file.body).text
        chunks == chunk_text(content, DefaultChunkSize, DefaultOverlap)
        vectors == generate_embeddings_batch(chunks)
    IN  [documents |-> {[id |-> 1, filename |-> file.filename, content |-> content,
                         uploaded_at |-> UploadedAtDefault(1)]},
         embeddings |-> {[id |-> i, document_id |-> 1, chunk_index |-> i - 1,
                          chunk_text |-> chunks[i], vector |-> vectors[i]] :
                         i \in 1..Len(chunks)},
         serial |-> [documents |-> 2, embeddings |-> Len(chunks) + 1,
                     queries |-> 1, responses |-> 1]]

InitialStores ==
    { [documents |-> {}, embeddings |-> {},
       serial |-> [documents |-> 1, embeddings |-> 1, queries |-> 1, responses |-> 1]],
      Ingested([filename |-> "long.txt", body |-> LongBody]) }

\* The service after startup: the pool is full and no request is in flight.
ServiceInit ==
    /\ \E s \in InitialStores :
         /\ documents = s.documents
         /\ embeddings = s.embeddings
         /\ serial = s.serial
    /\ queries = {}
    /\ responses = {}
    /\ pool = PoolSize
    /\ task = [t \in Tasks |-> IdleTask]
    /\ issued = 0
    /\ faults = 0
    /\ deleted = {}

\* No direct call of chunk_text is being followed.
NoCall == [pc |-> "idle", text |-> <<>>, chunk_size |-> DefaultChunkSize,
           overlap |-> DefaultOverlap, start |-> 0, chunks |-> <<>>]

Init == ServiceInit /\ chunker = NoCall

\* The task is free for a new request.
Free(t) == task[t].pc \in {"idle", "done"}

\* The pcs at which a task is inside a call of the embedding model.
ComputingPcs == {"pd_embedding", "search_embedding"}

Computing(t) == task[t].pc \in ComputingPcs

\* The event loop can run task t.  The loop has one thread, and
\* generate_embedding and generate_embeddings_batch are plain calls made on
\* it (no await, no executor): while a task is inside one, no other task and
\* no new request runs.
Scheduled(t) == \A u \in Tasks \ {t} : ~Computing(u)

\* A new request enters the lowest-numbered free task.
CanStart(t) ==
    /\ issued < MaxRequests
    /\ Free(t)
    /\ \A u \in Tasks : u < t => ~Free(u)

\* The environment may fail this call (a store error, a model failure).
MayFail(fail) == fail => faults < MaxFaults

Injected(fail) == IF fail THEN faults + 1 ELSE faults

\* The handler is over: the response is sent and leaving "async with
\* self.db_pool.acquire()" has released the connection.  The request, what the
\* search computed and the history fields stay readable.
Finished(tk, status, reply, error) ==
    [IdleTask EXCEPT !.pc = "done", !.kind = tk.kind,
                     !.filename = tk.filename, !.body = tk.body,
                     !.document_id = tk.document_id,
                     !.query = tk.query, !.top_k = tk.top_k,
                     !.query_id = tk.query_id,
                     !.search_response = tk.search_response,
                     !.rows = tk.rows, !.after_delete = tk.after_delete,
                     !.saw_deleted = tk.saw_deleted,
                     !.error = error, !.status = status, !.reply = reply]

\* Mutant of Released: a handler that ends keeps its connection.
ReleasedNever(tk) == pool

\* The free connections once task tk has left its "async with" block, if it
\* was in one.
Released(tk) == IF tk.conn THEN pool + 1 ELSE pool


\* ------------------------------------------------------- the pool, shared
\* "async with db_pool.acquire() as conn": the task waits until a connection
\* is free and takes it.  The pc after it names the statement that follows.
AfterAcquire(pc) ==
    CASE pc = "pd_acquire" -> "pd_insert_document"
      [] pc = "get_acquire" -> "get_select"
      [] pc = "delete_acquire" -> "delete_execute"
      [] pc = "search_acquire" -> "search_fetch"
      [] pc = "log_acquire" -> "log_insert_query"

AcquirePcs == {"pd_acquire", "get_acquire", "delete_acquire", "search_acquire",
               "log_acquire"}

Acquire(t) ==
    /\ Scheduled(t)
    /\ task[t].pc \in AcquirePcs
    /\ pool > 0
    /\ pool' = pool - 1
    /\ task' = [task EXCEPT ![t].pc = AfterAcquire(task[t].pc), ![t].conn = TRUE]
    /\ UNCHANGED <<store, serial, issued, faults, deleted, chunker>>

\* ------------------------------------------------- POST /documents/upload
\* Mutant of UploadFailed: "except Exception" comes first and catches the
\* UnicodeDecodeError too.
UploadFailedAlways500(tk, error) ==
    Finished(tk, 500, [detail |-> "Failed to process document"], error)

\* upload_document's except clauses: UnicodeDecodeError is a 400, every other
\* exception a 500.
UploadFailed(tk, error) ==
    IF error = "UnicodeDecodeError"
      THEN Finished(tk, 400, [detail |-> "File must be text-based (UTF-8)"], error)
      ELSE Finished(tk, 500, [detail |-> "Failed to process document"], error)

StartUpload(t, file) ==
    /\ Scheduled(t)
    /\ CanStart(t)
    /\ issued' = issued + 1
    /\ task' = [task EXCEPT ![t] =
                  [IdleTask EXCEPT !.pc = "upload_read", !.kind = "upload",
                                   !.filename = file.filename, !.body = file.body]]
    /\ UNCHANGED <<store, serial, pool, faults, deleted, chunker>>

\* content = (await file.read()).decode("utf-8"), then into process_document
\* up to its acquire.
UploadRead(t) ==
    /\ Scheduled(t)
    /\ task[t].pc = "upload_read"
    /\ LET decoded == Utf8Decode(task[t].body)
       IN  task' = [task EXCEPT ![t] =
                      IF decoded.ok
                        THEN [@ EXCEPT !.pc = "pd_acquire", !.content = decoded.text]
                        ELSE UploadFailed(@, "UnicodeDecodeError")]
    /\ UNCHANGED <<store, serial, pool, issued, faults, deleted, chunker>>

\* INSERT INTO documents (filename, content) ... RETURNING id: the row is
\* committed by the statement; uploaded_at is set by the store.
PdInsertDocument(t) ==
    /\ Scheduled(t)
    /\ task[t].pc = "pd_insert_document"
    /\ \E fail \in BOOLEAN :
         /\ MayFail(fail)
         /\ faults' = Injected(fail)
         /\ IF fail
              THEN /\ task' = [task EXCEPT ![t] = UploadFailed(@, "StoreError")]
                   /\ pool' = Released(task[t])
                   /\ UNCHANGED <<documents, serial>>
              ELSE /\ documents' = documents \cup
                         {[id |-> serial.documents, filename |-> task[t].filename,
                           content |-> task[t].content,
                           uploaded_at |-> UploadedAtDefault(serial.documents)]}
                   /\ serial' = [serial EXCEPT !.documents = @ + 1]
                   /\ task' = [task EXCEPT ![t].pc = "pd_embed",
                                           ![t].document_id = serial.documents]
                   /\ pool' = pool
    /\ UNCHANGED <<embeddings, queries, responses, issued, deleted, chunker>>

\* The task runs on from the INSERT into "chunks = self.chunk_text(content)"
\* and enters self.embedding_service.generate_embeddings_batch(chunks).
PdEmbedCall(t) ==
    /\ Scheduled(t)
    /\ task[t].pc = "pd_embed"
    /\ task' = [task EXCEPT ![t].pc = "pd_embedding"]
    /\ UNCHANGED <<store, serial, pool, issued, faults, deleted, chunker>>

\* generate_embeddings_batch returns the vectors or raises.
PdEmbed(t) ==
    /\ Scheduled(t)
    /\ task[t].pc = "pd_embedding"
    /\ \E fail \in BOOLEAN :
         /\ MayFail(fail)
         /\ faults' = Injected(fail)
         /\ IF fail
              THEN /\ task' = [task EXCEPT ![t] = UploadFailed(@, "EmbedderError")]
                   /\ pool' = Released(task[t])
              ELSE /\ LET chunks == chunk_text(task[t].content, DefaultChunkSize,
                                               DefaultOverlap)
                      IN  task' = [task EXCEPT
                                     ![t].pc = "pd_insert_embedding",
                                     ![t].chunks = chunks,
                                     ![t].vectors = generate_embeddings_batch(chunks),
                                     ![t].i = 0]
                   /\ pool' = pool
    /\ UNCHANGED <<store, serial, issued, deleted, chunker>>

\* The embeddings relation's foreign key to documents.
DocumentExists(id) == \E d \in documents : d.id = id

\* Mutant of Enumerated: enumerate(..., start=1).
EnumeratedFromOne(chunks, vectors, i) ==
    [chunk_index |-> i + 1, chunk_text |-> chunks[i + 1], vector |-> vectors[i + 1]]

\* The item of enumerate(zip(chunks, embeddings)) that pass i of the loop
\* binds to i, (chunk, embedding).
Enumerated(chunks, vectors, i) ==
    [chunk_index |-> i, chunk_text |-> chunks[i + 1], vector |-> vectors[i + 1]]

\* One pass of "for i, (chunk, embedding) in enumerate(zip(chunks, embeddings))":
\* INSERT INTO embeddings (document_id, chunk_index, chunk_text, vector).
PdInsertEmbedding(t) ==
    /\ Scheduled(t)
    /\ task[t].pc = "pd_insert_embedding"
    /\ task[t].i < Min(Len(task[t].chunks), Len(task[t].vectors))
    /\ \E fail \in BOOLEAN :
         /\ MayFail(fail)
         /\ faults' = Injected(fail)
         /\ IF fail \/ ~DocumentExists(task[t].document_id)
              THEN /\ task' = [task EXCEPT ![t] =
                                 UploadFailed(@, IF fail THEN "StoreError"
                                                         ELSE "ForeignKeyViolation")]
                   /\ pool' = Released(task[t])
                   /\ UNCHANGED <<embeddings, serial>>
              ELSE /\ LET item == Enumerated(task[t].chunks, task[t].vectors,
                                               task[t].i)
                      IN  embeddings' = embeddings \cup
                            {[id |-> serial.embeddings,
                              document_id |-> task[t].document_id,
                              chunk_index |-> item.chunk_index,
                              chunk_text |-> item.chunk_text,
                              vector |-> item.vector]}
                   /\ serial' = [serial EXCEPT !.embeddings = @ + 1]
                   /\ task' = [task EXCEPT ![t].i = @ + 1]
                   /\ pool' = pool
    /\ UNCHANGED <<documents, queries, responses, issued, deleted, chunker>>

\* The loop is over: process_document returns document_id, the connection is
\* released, and upload_document builds DocumentOut(..., uploaded_at=None).
UploadReturn(t) ==
    /\ Scheduled(t)
    /\ task[t].pc = "pd_insert_embedding"
    /\ ~(task[t].i < Min(Len(task[t].chunks), Len(task[t].vectors)))
    /\ LET out == DocumentOut(task[t].document_id, task[t].filename,
                              task[t].content, None)
       IN  task' = [task EXCEPT ![t] =
                      IF out.ok THEN Finished(@, 200, out.value, "")
                                ELSE UploadFailed(@, out.error)]
    /\ pool' = Released(task[t])
    /\ UNCHANGED <<store, serial, issued, faults, deleted, chunker>>

\* ---------------------------------------------- GET /documents/{document_id}
StartGet(t, id) ==
    /\ Scheduled(t)
    /\ CanStart(t)
    /\ issued' = issued + 1
    /\ task' = [task EXCEPT ![t] =
                  [IdleTask EXCEPT !.pc = "get_acquire", !.kind = "get",
                                   !.document_id = id,
                                   !.after_delete = (id \in deleted)]]
    /\ UNCHANGED <<store, serial, pool, faults, deleted, chunker>>

\* get_document after its fetchrow returned: 404 when there is no record, else
\* the record as a DocumentOut.
GetAnswer(id) ==
    LET found == {d \in documents : d.id = id}
    IN  IF found = {}
          THEN [status |-> 404, reply |-> [detail |-> "Document not found"],
                error |-> "HTTPException"]
          ELSE LET record == CHOOSE d \in found : TRUE
                   out == DocumentOut(record.id, record.filename, record.content,
                                      record.uploaded_at)
               IN  IF out.ok THEN [status |-> 200, reply |-> out.value, error |-> ""]
                             ELSE [status |-> 500,
                                   reply |-> [detail |-> "Internal Server Error"],
                                   error |-> out.error]

\* record = await conn.fetchrow("SELECT * FROM documents WHERE id = $1") and
\* the answer.  No except clause: a store error leaves the handler and the
\* framework answers 500.
GetSelect(t) ==
    /\ Scheduled(t)
    /\ task[t].pc = "get_select"
    /\ \E fail \in BOOLEAN :
         /\ MayFail(fail)
         /\ faults' = Injected(fail)
         /\ LET answer == GetAnswer(task[t].document_id)
            IN  task' = [task EXCEPT ![t] =
                  IF fail
                    THEN Finished(@, 500, [detail |-> "Internal Server Error"],
                                  "StoreError")
                    ELSE Finished(@, answer.status, answer.reply, answer.error)]
    /\ pool' = Released(task[t])
    /\ UNCHANGED <<store, serial, issued, deleted, chunker>>

\* ------------------------------------------- DELETE /documents/{document_id}
StartDelete(t, id) ==
    /\ Scheduled(t)
    /\ CanStart(t)
    /\ issued' = issued + 1
    /\ task' = [task EXCEPT ![t] =
                  [IdleTask EXCEPT !.pc = "delete_acquire", !.kind = "delete",
                                   !.document_id = id]]
    /\ UNCHANGED <<store, serial, pool, faults, deleted, chunker>>

\* The status the store returns for DELETE FROM documents WHERE id = $1:
\* "DELETE n", n the number of rows deleted.
DeleteResult(id) == <<"DELETE", Cardinality({d \in documents : d.id = id})>>

\* Mutant of DocumentsAfterDelete: the statement matches no row to delete.
DocumentsAfterDeleteKept(id) == documents

\* What the statement does to the store: the document row goes, and with it
\* (ON DELETE CASCADE on embeddings.document_id) the rows it owns.
DocumentsAfterDelete(id) == {d \in documents : d.id # id}
EmbeddingsAfterDelete(id) == {e \in embeddings : e.document_id # id}

\* Mutant of DeleteAnswer: the test is result != "DELETE 0".
DeleteAnswerInverted(result) ==
    IF result # <<"DELETE", 0>>
      THEN [status |-> 404, reply |-> [detail |-> "Document not found"],
            error |-> "HTTPException"]
      ELSE [status |-> 200, reply |-> [message |-> "Document deleted successfully"],
            error |-> ""]

\* delete_document after its execute returned: 404 when result == "DELETE 0",
\* else the message.
DeleteAnswer(result) ==
    IF result = <<"DELETE", 0>>
      THEN [status |-> 404, reply |-> [detail |-> "Document not found"],
            error |-> "HTTPException"]
      ELSE [status |-> 200, reply |-> [message |-> "Document deleted successfully"],
            error |-> ""]

\* result = await conn.execute("DELETE FROM documents WHERE id = $1") and the
\* answer.
DeleteExecute(t) ==
    /\ Scheduled(t)
    /\ task[t].pc = "delete_execute"
    /\ \E fail \in BOOLEAN :
         /\ MayFail(fail)
         /\ faults' = Injected(fail)
         /\ LET id == task[t].document_id
                result == DeleteResult(id)
            IN  IF fail
                  THEN /\ task' = [task EXCEPT ![t] =
                             Finished(@, 500, [detail |-> "Internal Server Error"],
                                      "StoreError")]
                       /\ UNCHANGED <<documents, embeddings, deleted>>
                  ELSE /\ documents' = DocumentsAfterDelete(id)
                       /\ embeddings' = EmbeddingsAfterDelete(id)
                       /\ LET answer == DeleteAnswer(result)
                          IN  /\ task' = [task EXCEPT ![t] =
                                    Finished(@, answer.status, answer.reply,
                                             answer.error)]
                              /\ deleted' = IF answer.status = 200
                                              THEN deleted \cup {id} ELSE deleted
    /\ pool' = Released(task[t])
    /\ UNCHANGED <<queries, responses, serial, issued, chunker>>

\* ------------------------------------------------------ POST /search/query
\* Mutant of SearchFailed: a failure after the response was computed is
\* swallowed and the computed response is returned.
SearchFailedKeepsResponse(tk, error) ==
    IF tk.search_response # None
      THEN Finished(tk, 200, tk.search_response[1], error)
      ELSE Finished(tk, 500, [detail |-> "Search failed"], error)

\* search_documents' except clause: every exception is a 500.
SearchFailed(tk, error) == Finished(tk, 500, [detail |-> "Search failed"], error)

StartSearch(t, query, top_k) ==
    /\ Scheduled(t)
    /\ CanStart(t)
    /\ issued' = issued + 1
    /\ task' = [task EXCEPT ![t] =
                  [IdleTask EXCEPT !.pc = "search_embed", !.kind = "search",
                                   !.query = query, !.top_k = top_k]]
    /\ UNCHANGED <<store, serial, pool, faults, deleted, chunker>>

\* search() enters self.embedding_service.generate_embedding(query).
SearchEmbedCall(t) ==
    /\ Scheduled(t)
    /\ task[t].pc = "search_embed"
    /\ task' = [task EXCEPT ![t].pc = "search_embedding"]
    /\ UNCHANGED <<store, serial, pool, issued, faults, deleted, chunker>>

\* generate_embedding returns the query's vector or raises.
SearchEmbed(t) ==
    /\ Scheduled(t)
    /\ task[t].pc = "search_embedding"
    /\ \E fail \in BOOLEAN :
         /\ MayFail(fail)
         /\ faults' = Injected(fail)
         /\ task' = [task EXCEPT ![t] =
                       IF fail
                         THEN SearchFailed(@, "EmbedderError")
                         ELSE [@ EXCEPT !.pc = "search_acquire",
                                        !.query_embedding =
                                            Some(generate_embedding(task[t].query))]]
    /\ UNCHANGED <<store, serial, pool, issued, deleted, chunker>>

\* The rows of "FROM embeddings e JOIN documents d ON e.document_id = d.id"
\* with the selected columns, score = 1 - (e.vector <=> $1).
SimilarityRows(query_embedding) ==
    { [embedding_id |-> e.id, chunk_text |-> e.chunk_text,
       chunk_index |-> e.chunk_index, filename |-> d.filename,
       document_id |-> d.id,
       score |-> 1 - CosineDistance(e.vector, query_embedding)] :
      <<e, d>> \in {p \in embeddings \X documents : p[1].document_id = p[2].id} }

\* Mutant of OrderKey: the query orders by the score, not by the distance.
OrderKeyByScore(row) == row.score

\* The sort key of "ORDER BY e.vector <=> $1": the row's distance.
OrderKey(row) == 1 - row.score

\* The sequences of the first limit rows in ascending sort key.  SQL leaves
\* the order among equal keys open, so every such sequence is a possible
\* answer.
OrderedPrefixes(rows, limit) ==
    LET n == Min(limit, Cardinality(rows))
    IN  { s \in [1..n -> rows] :
            /\ \A i, j \in 1..n : i < j => s[i] # s[j] /\ OrderKey(s[i]) <= OrderKey(s[j])
            /\ \A r \in rows : (\A i \in 1..n : s[i] # r) =>
                                 \A i \in 1..n : OrderKey(s[i]) <= OrderKey(r) }

\* Mutant of OrderByLimit: the limit is "top_k or 5", and 0 is falsy.
OrderByLimitFalsyZero(rows, top_k) ==
    OrderedPrefixes(rows, IF top_k = 0 THEN 5 ELSE top_k)

\* "ORDER BY e.vector <=> $1 LIMIT $2" with top_k as $2.
OrderByLimit(rows, top_k) == OrderedPrefixes(rows, top_k)

\* results = await conn.fetch(<similarity query>, query_embedding, top_k), the
\* rows turned into SearchResult objects, and the SearchResponse built after
\* the connection is released; then into log_query_and_responses up to its
\* acquire.  The store rejects a negative LIMIT.
SearchFetch(t) ==
    /\ Scheduled(t)
    /\ task[t].pc = "search_fetch"
    /\ \E fail \in BOOLEAN :
         /\ MayFail(fail)
         /\ faults' = Injected(fail)
         /\ IF fail \/ task[t].top_k < 0
              THEN task' = [task EXCEPT ![t] =
                              SearchFailed(@, IF fail THEN "StoreError"
                                                      ELSE "InvalidRowCount")]
              ELSE \E rows \in OrderByLimit(SimilarityRows(task[t].query_embedding[1]),
                                            task[t].top_k) :
                     LET search_results == [i \in 1..Len(rows) |-> SearchResult(rows[i])]
                     IN  task' = [task EXCEPT
                                    ![t].pc = "log_acquire",
                                    ![t].conn = FALSE,
                                    ![t].results = search_results,
                                    ![t].rows = rows,
                                    ![t].saw_deleted =
                                        \E i \in 1..Len(rows) :
                                            rows[i].document_id \in deleted,
                                    ![t].search_response =
                                        Some(SearchResponse(task[t].query, search_results,
                                                            Len(search_results),
                                                            "elapsed"))]
    /\ pool' = Released(task[t])
    /\ UNCHANGED <<store, serial, issued, deleted, chunker>>

\* INSERT INTO queries (query_text) VALUES ($1) RETURNING id
LogInsertQuery(t) ==
    /\ Scheduled(t)
    /\ task[t].pc = "log_insert_query"
    /\ \E fail \in BOOLEAN :
         /\ MayFail(fail)
         /\ faults' = Injected(fail)
         /\ IF fail
              THEN /\ task' = [task EXCEPT ![t] = SearchFailed(@, "StoreError")]
                   /\ pool' = Released(task[t])
                   /\ UNCHANGED <<queries, serial>>
              ELSE /\ queries' = queries \cup
                         {[id |-> serial.queries, query_text |-> task[t].query]}
                   /\ serial' = [serial EXCEPT !.queries = @ + 1]
                   /\ task' = [task EXCEPT ![t].pc = "log_insert_response",
                                           ![t].query_id = serial.queries,
                                           ![t].i = 0]
                   /\ pool' = pool
    /\ UNCHANGED <<documents, embeddings, responses, issued, deleted, chunker>>

\* The responses relation's foreign key to embeddings.
EmbeddingExists(id) == \E e \in embeddings : e.id = id

\* One pass of "for result in search_response.results": the arguments
\* result.embedding_id, result.score, result.chunk_text are read, then
\* INSERT INTO responses (query_id, embedding_id, score, response_text).
LogInsertResponse(t) ==
    /\ Scheduled(t)
    /\ task[t].pc = "log_insert_response"
    /\ task[t].i < Len(task[t].results)
    /\ LET result == task[t].results[task[t].i + 1]
       IN  IF ~HasAttr(result, "embedding_id")
             THEN /\ task' = [task EXCEPT ![t] = SearchFailed(@, "AttributeError")]
                  /\ pool' = Released(task[t])
                  /\ UNCHANGED <<responses, serial, faults>>
             ELSE \E fail \in BOOLEAN :
                    /\ MayFail(fail)
                    /\ faults' = Injected(fail)
                    /\ IF fail \/ ~EmbeddingExists(result.embedding_id)
                         THEN /\ task' = [task EXCEPT ![t] =
                                            SearchFailed(@, IF fail THEN "StoreError"
                                                            ELSE "ForeignKeyViolation")]
                              /\ pool' = Released(task[t])
                              /\ UNCHANGED <<responses, serial>>
                         ELSE /\ responses' = responses \cup
                                    {[id |-> serial.responses,
                                      query_id |-> task[t].query_id,
                                      embedding_id |-> result.embedding_id,
                                      score |-> result.score,
                                      response_text |-> result.chunk_text]}
                              /\ serial' = [serial EXCEPT !.responses = @ + 1]
                              /\ task' = [task EXCEPT ![t].i = @ + 1]
                              /\ pool' = pool
    /\ UNCHANGED <<documents, embeddings, queries, issued, deleted, chunker>>

\* The loop is over: log_query_and_responses returns, the connection is
\* released, and search_documents returns search_response.
SearchReturn(t) ==
    /\ Scheduled(t)
    /\ task[t].pc = "log_insert_response"
    /\ ~(task[t].i < Len(task[t].results))
    /\ task' = [task EXCEPT ![t] = Finished(@, 200, task[t].search_response[1], "")]
    /\ pool' = Released(task[t])
    /\ UNCHANGED <<store, serial, issued, faults, deleted, chunker>>

Next ==
    \/ \E t \in Tasks : Acquire(t)
    \/ \E t \in Tasks, file \in Uploads : StartUpload(t, file)
    \/ \E t \in Tasks : UploadRead(t)
    \/ \E t \in Tasks : PdInsertDocument(t)
    \/ \E t \in Tasks : PdEmbedCall(t)
    \/ \E t \in Tasks : PdEmbed(t)
    \/ \E t \in Tasks : PdInsertEmbedding(t)
    \/ \E t \in Tasks : UploadReturn(t)
    \/ \E t \in Tasks, id \in AskedIds : StartGet(t, id)
    \/ \E t \in Tasks : GetSelect(t)
    \/ \E t \in Tasks, id \in AskedIds : StartDelete(t, id)
    \/ \E t \in Tasks : DeleteExecute(t)
    \/ \E t \in Tasks, query \in Queries, top_k \in TopKs : StartSearch(t, query, top_k)
    \/ \E t \in Tasks : SearchEmbedCall(t)
    \/ \E t \in Tasks : SearchEmbed(t)
    \/ \E t \in Tasks : SearchFetch(t)
    \/ \E t \in Tasks : LogInsertQuery(t)
    \/ \E t \in Tasks : LogInsertResponse(t)
    \/ \E t \in Tasks : SearchReturn(t)

Spec == Init /\ [][Next]_vars

\* ------------------------------------------- chunk_text, one call in steps
\* The texts (over two letters) and the chunk_size and overlap arguments of
\* the calls followed; the overlap may reach or exceed the chunk_size.
ChunkTexts == UNION {[1..n -> {97, 98}] : n \in 0..MaxTextLen}
ChunkSizes == 1..MaxChunkSize
Overlaps == 0..MaxChunkSize

\* Passes of the while loop followed in one call.
MaxPasses == MaxTextLen + 1

\* chunks = []; start = 0
ChunkCalls ==
    { [pc |-> "while", text |-> text, chunk_size |-> chunk_size,
       overlap |-> overlap, start |-> 0, chunks |-> <<>>] :
      text \in ChunkTexts, chunk_size \in ChunkSizes, overlap \in Overlaps }

ChunkInit ==
    /\ ServiceInit
    /\ documents = {}
    /\ chunker \in ChunkCalls

\* "while start < len(text):" holds and the body runs once, up to the break.
ChunkPass ==
    /\ chunker.pc = "while"
    /\ chunker.start < Len(chunker.text)
    /\ Len(chunker.chunks) < MaxPasses
    /\ LET st == ChunkStep(chunker.text, chunker.chunk_size, chunker.overlap,
                           [start |-> chunker.start, chunks |-> chunker.chunks,
                            stop |-> FALSE])
       IN  chunker' = [chunker EXCEPT !.pc = IF st.stop THEN "break" ELSE "while",
                                      !.start = st.start,
                                      !.chunks = st.chunks]
    /\ UNCHANGED <<store, serial, pool, task, issued, faults, deleted>>

\* The loop is left, by its condition or by the break: "return chunks".
ChunkReturn ==
    /\ \/ chunker.pc = "while" /\ ~(chunker.start < Len(chunker.text))
       \/ chunker.pc = "break"
    /\ chunker' = [chunker EXCEPT !.pc = "returned"]
    /\ UNCHANGED <<store, serial, pool, task, issued, faults, deleted>>

ChunkNext == ChunkPass \/ ChunkReturn

ChunkSpec == ChunkInit /\ [][ChunkNext]_vars


\* ------------------------------------------------------------------ claims
Done(t) == task[t].pc = "done"

\* The exceptions that are failures of the embedder or of the store.
EnvironmentErrors == {"EmbedderError", "StoreError", "ForeignKeyViolation"}

\* An ingestion of document id is still running in some task.
Ingesting(id) ==
    \E t \in Tasks : /\ task[t].kind = "upload"
                     /\ ~Done(t)
                     /\ task[t].document_id = id

\* The rows (chunk_index, chunk_text) stored for document d, and the rows a
\* complete ingestion of its content stores.
StoredChunks(d) ==
    {<<e.chunk_index, e.chunk_text>> : e \in {x \in embeddings : x.document_id = d.id}}

ExpectedChunks(d) ==
    LET chunks == chunk_text(d.content, DefaultChunkSize, DefaultOverlap)
    IN  {<<i - 1, chunks[i]>> : i \in 1..Len(chunks)}

\* C1: ingestion is all-or-nothing per document: a document row whose
\* ingestion is not still running (a transaction would show other sessions
\* nothing of it before it ends) is in the store only together with the
\* complete set of its embedding rows; a failed ingestion leaves no row.
C1_AllOrNothing ==
    \A d \in documents : ~Ingesting(d.id) => StoredChunks(d) = ExpectedChunks(d)

\* C2: an upload whose bytes decode as UTF-8, with no embedder or store
\* failure, is answered 200 with a document carrying the uploaded filename,
\* the decoded content, the generated id and an uploaded_at field.
C2_UploadAnswers200 ==
    \A t \in Tasks :
        ( /\ Done(t)
          /\ task[t].kind = "upload"
          /\ Utf8Decode(task[t].body).ok
          /\ task[t].error \notin EnvironmentErrors )
        => /\ task[t].status = 200
           /\ DOMAIN task[t].reply = {"id", "filename", "content", "uploaded_at"}
           /\ task[t].reply.filename = task[t].filename
           /\ task[t].reply.content = Utf8Decode(task[t].body).text
           /\ task[t].reply.id >= 1
           /\ task[t].reply.id < serial.documents

\* C3: round trip: an upload (UTF-8 bytes, no embedder or store failure)
\* returns an id, and fetching that id, as long as no DELETE of it has
\* succeeded, answers 200 with the same id and the uploaded filename and
\* content.
C3_RoundTrip ==
    \A t \in Tasks :
        ( /\ Done(t)
          /\ task[t].kind = "upload"
          /\ Utf8Decode(task[t].body).ok
          /\ task[t].error \notin EnvironmentErrors )
        => /\ task[t].status = 200
           /\ "id" \in DOMAIN task[t].reply
           /\ task[t].reply.id \notin deleted =>
                LET got == GetAnswer(task[t].reply.id)
                IN  /\ got.status = 200
                    /\ got.reply.id = task[t].reply.id
                    /\ got.reply.filename = task[t].filename
                    /\ got.reply.content = Utf8Decode(task[t].body).text

\* The search of task t has computed its response (the similarity query
\* returned) and its handler is over.
Searched(t) ==
    /\ Done(t)
    /\ task[t].kind = "search"
    /\ task[t].search_response # None

\* C4: every search request (no store failure) persists exactly one Query row
\* carrying the query text and one Response row per returned result, owned by
\* that Query row and carrying the matched chunk's embedding id, score and
\* chunk text.
C4_QueryAndResponsesLogged ==
    \A t \in Tasks :
        (Searched(t) /\ task[t].error \notin EnvironmentErrors)
        => /\ Cardinality({q \in queries : q.id = task[t].query_id}) = 1
           /\ \A q \in queries : q.id = task[t].query_id => q.query_text = task[t].query
           /\ LET mine == {r \in responses : r.query_id = task[t].query_id}
              IN  /\ Cardinality(mine) = Len(task[t].rows)
                  /\ {<<r.embedding_id, r.score, r.response_text>> : r \in mine}
                       = {<<task[t].rows[i].embedding_id, task[t].rows[i].score,
                            task[t].rows[i].chunk_text>> : i \in 1..Len(task[t].rows)}

\* C5: a search with top_k >= 0 (no embedder or store failure) is answered
\* 200 with a body whose query is the request's query and which has results,
\* total_results and response_time_ms.
C5_SearchAnswers200 ==
    \A t \in Tasks :
        ( /\ Done(t)
          /\ task[t].kind = "search"
          /\ task[t].top_k >= 0
          /\ task[t].error \notin EnvironmentErrors )
        => /\ task[t].status = 200
           /\ DOMAIN task[t].reply =
                  {"query", "results", "total_results", "response_time_ms"}
           /\ task[t].reply.query = task[t].query



\* C6: once DELETE /documents/D has answered 200 with its message, D has no
\* document row and no embedding row, every GET of D begun later is answered
\* 404 (no store failure), and no similarity query returns a row of D; new
\* documents do not bring D back.
C6_DeletedStaysDeleted ==
    /\ \A t \in Tasks :
         (Done(t) /\ task[t].kind = "delete" /\ task[t].status = 200)
         => /\ task[t].reply = [message |-> "Document deleted successfully"]
            /\ task[t].document_id \in deleted
    /\ \A id \in deleted :
         /\ ~DocumentExists(id)
         /\ \A e \in embeddings : e.document_id # id
    /\ \A t \in Tasks :
         ( /\ Done(t)
           /\ task[t].kind = "get"
           /\ task[t].after_delete
           /\ task[t].error \notin EnvironmentErrors )
         => task[t].status = 404
    /\ \A t \in Tasks : ~task[t].saw_deleted

\* A GET of a deleted document's id, begun after the DELETE answered 200, has
\* been answered 404 while another document is in the store.
C6_Witness ==
    \E t \in Tasks : /\ Done(t)
                     /\ task[t].kind = "get"
                     /\ task[t].after_delete
                     /\ task[t].status = 404

\* The uploaded bodies that bytes.decode("utf-8") rejects.
NotUtf8 == {f.body : f \in {u \in Uploads : ~Utf8Decode(u.body).ok}}

\* The step of task t's handler from a state where its upload is running.
UploadStep(t) ==
    /\ task[t].kind = "upload"
    /\ ~Done(t)
    /\ task'[t] # task[t]

\* C7: an upload whose bytes are not valid UTF-8 is answered 400, and no step
\* of its handler changes the store: no document row, no embedding row.
C7_InvalidUploadRejected ==
    [][\A t \in Tasks :
         (UploadStep(t) /\ task[t].body \in NotUtf8)
         => /\ store' = store
            /\ serial' = serial
            /\ task'[t].pc = "done"
                 => /\ task'[t].status = 400
                    /\ task'[t].reply = [detail |-> "File must be text-based (UTF-8)"]
       ]_vars

\* An upload of bytes that are not UTF-8 has been answered 400.
C7_Witness ==
    \E t \in Tasks : /\ Done(t)
                     /\ task[t].kind = "upload"
                     /\ task[t].body \in NotUtf8
                     /\ task[t].status = 400

\* The step in which task t's statement runs and its handler answers, with no
\* store failure.
AnswerStep(t, pc) ==
    /\ task[t].pc = pc
    /\ task'[t].pc = "done"
    /\ task'[t].error \notin EnvironmentErrors

\* C8: GET and DELETE of an id with no document row answer 404 with detail
\* "Document not found" and leave the store unchanged; of an id with a row
\* they answer 200.
C8_NotFoundDistinct ==
    [][\A t \in Tasks :
         (AnswerStep(t, "get_select") \/ AnswerStep(t, "delete_execute"))
         => IF DocumentExists(task[t].document_id)
              THEN task'[t].status = 200
              ELSE /\ task'[t].status = 404
                   /\ task'[t].reply = [detail |-> "Document not found"]
                   /\ store' = store]_vars

\* A GET answered 404 and a DELETE answered 200.
C8_Witness ==
    \E t, u \in Tasks :
        /\ Done(t) /\ task[t].kind = "get" /\ task[t].status = 404
        /\ Done(u) /\ task[u].kind = "delete" /\ task[u].status = 200

\* C9: the response search() builds has its results in non-increasing score
\* order, total_results = len(results), and at most top_k results.
C9_SearchOrdered ==
    \A t \in Tasks :
        task[t].search_response # None
        => LET r == task[t].search_response[1]
           IN  /\ \A i, j \in 1..Len(r.results) :
                     i < j => r.results[i].score >= r.results[j].score
               /\ r.total_results = Len(r.results)
               /\ Len(r.results) <= task[t].top_k

\* A search has returned two results of different scores.
C9_Witness ==
    \E t \in Tasks :
        /\ task[t].search_response # None
        /\ Len(task[t].search_response[1].results) = 2
        /\ task[t].search_response[1].results[1].score
             > task[t].search_response[1].results[2].score

\* C10: a search with top_k = 0 (no embedder or store failure) is answered
\* 200 with results = [] and total_results = 0, whatever the query string and
\* the store.
C10_TopKZero ==
    \A t \in Tasks :
        ( /\ Done(t)
          /\ task[t].kind = "search"
          /\ task[t].top_k = 0
          /\ task[t].error \notin EnvironmentErrors )
        => /\ task[t].status = 200
           /\ task[t].reply.results = <<>>
           /\ task[t].reply.total_results = 0

\* A search of the empty string with top_k = 0 over a store that holds
\* embedding rows has been answered 200.
C10_Witness ==
    \E t \in Tasks : /\ Done(t)
                     /\ task[t].kind = "search"
                     /\ task[t].top_k = 0
                     /\ task[t].query = <<>>
                     /\ embeddings # {}
                     /\ task[t].status = 200

\* C11: in POST /search/query the log rows are written after the search
\* response is computed and before the handler returns, and a failure while
\* writing them is answered 500 "Search failed", never with the computed
\* response.
C11_LogFailureFailsRequest ==
    \A t \in Tasks :
        task[t].kind = "search"
        => /\ task[t].pc \in {"log_insert_query", "log_insert_response"}
                => task[t].search_response # None
           /\ task[t].query_id # 0 => task[t].search_response # None
           /\ (Done(t) /\ task[t].status = 200)
                => \E q \in queries : /\ q.id = task[t].query_id
                                      /\ q.query_text = task[t].query
           /\ (Done(t) /\ task[t].search_response # None /\ task[t].error # "")
                => /\ task[t].status = 500
                   /\ task[t].reply = [detail |-> "Search failed"]

\* A search whose response was computed has failed while its query row was
\* being written, and was answered 500.
C11_Witness ==
    \E t \in Tasks : /\ Done(t)
                     /\ task[t].kind = "search"
                     /\ task[t].search_response # None
                     /\ task[t].error = "StoreError"
                     /\ task[t].status = 500

\* chunk_text has returned from the call followed.
Returned == chunker.pc = "returned"

\* ceil(a / b) for b > 0.
CeilDiv(a, b) == -((-a) \div b)

C13_ShortTextOneChunk ==
    ( /\ Returned
      /\ chunker.overlap < chunker.chunk_size
      /\ 0 < Len(chunker.text)
      /\ Len(chunker.text) < chunker.chunk_size )
    => chunker.chunks = <<chunker.text>>

\* The last n characters of a chunk (the whole chunk when it is shorter) and
\* its first n characters.
LastChars(chunk, n) == SubSeq(chunk, Max(Len(chunk) - n, 0) + 1, Len(chunk))
FirstChars(chunk, n) == SubSeq(chunk, 1, Min(n, Len(chunk)))

\* C14: with overlap O < chunk_size, consecutive chunks i and i+1 share exactly
\* O characters, the last O of chunk i being the first O of chunk i+1, unless
\* chunk i+1 is the final chunk.
C14_ConsecutiveOverlap ==
    (Returned /\ chunker.overlap < chunker.chunk_size)
    => \A i \in 1..(Len(chunker.chunks) - 2) :
          /\ Len(FirstChars(chunker.chunks[i + 1], chunker.overlap)) = chunker.overlap
          /\ LastChars(chunker.chunks[i], chunker.overlap)
               = FirstChars(chunker.chunks[i + 1], chunker.overlap)

\* C15 as stated: with overlap >= chunk_size the advance chunk_size - overlap
\* is non-positive and the call never returns, whatever the text.
C15_NeverTerminatesAsStated ==
    (chunker.pc # "idle" /\ chunker.overlap >= chunker.chunk_size)
    => /\ chunker.chunk_size - chunker.overlap <= 0
       /\ ~Returned

\* C15, amended: with overlap >= chunk_size and a non-empty text the call is
\* accepted, the advance is non-positive, and after any number of passes the
\* loop is still running with start = passes * (chunk_size - overlap) below
\* len(text): the call never returns.
C15_NeverTerminates ==
    ( /\ chunker.pc # "idle"
      /\ chunker.overlap >= chunker.chunk_size
      /\ Len(chunker.text) > 0 )
    => /\ chunker.chunk_size - chunker.overlap <= 0
       /\ chunker.pc = "while"
       /\ chunker.start = Len(chunker.chunks) * (chunker.chunk_size - chunker.overlap)
       /\ chunker.start < Len(chunker.text)

\* A call with overlap > chunk_size on a non-empty text is still in its loop
\* after MaxPasses passes, its start below zero.
C15_Witness ==
    /\ chunker.overlap > chunker.chunk_size
    /\ Len(chunker.text) > 0
    /\ Len(chunker.chunks) = MaxPasses
    /\ chunker.start < 0
    /\ chunker.pc = "while"

\* The embedding rows of document d.
RowsOf(d) == {e \in embeddings : e.document_id = d.id}

\* C16: in every reachable state, the chunk_index values of each document's
\* embedding rows are exactly 0..n-1 for its n rows, without gap or duplicate,
\* and the row with chunk_index i holds the i-th chunk chunk_text produces
\* for the document's content.
C16_ChunkIndexContiguous ==
    \A d \in documents :
        LET n == Cardinality(RowsOf(d))
            chunks == chunk_text(d.content, DefaultChunkSize, DefaultOverlap)
        IN  /\ {e.chunk_index : e \in RowsOf(d)} = 0..(n - 1)
            /\ n <= Len(chunks)
            /\ \A e \in RowsOf(d) : e.chunk_text = chunks[e.chunk_index + 1]

\* An upload has written both rows of a two-chunk document, and another
\* document stands with the first of its two rows only.
C16_Witness ==
    \E t, u \in Tasks : \E d, c \in documents :
        /\ task[t].kind = "upload" /\ task[t].document_id = d.id
        /\ Cardinality(RowsOf(d)) = 2
        /\ task[u].kind = "upload" /\ task[u].document_id = c.id
        /\ Done(u) /\ Cardinality(RowsOf(c)) = 1
        /\ Len(chunk_text(c.content, DefaultChunkSize, DefaultOverlap)) = 2

\* C17: a request holds at most one pool connection at a time and gives it
\* back when its handler ends, by returning or by raising: a finished handler
\* holds no connection, the free connections are all but the ones held by
\* running handlers, and with no request in flight the pool is full again.
C17_ConnectionsReleased ==
    /\ \A t \in Tasks : Free(t) => ~task[t].conn
    /\ pool = PoolSize - Cardinality({t \in Tasks : task[t].conn})
    /\ (\A t \in Tasks : Free(t)) => pool = PoolSize

\* Two handlers have ended, one by a 404 and one by a failure of the store
\* while it held a connection, and the pool is full.
C17_Witness ==
    \E t, u \in Tasks :
        /\ Done(t) /\ task[t].status = 404
        /\ Done(u) /\ task[u].error = "StoreError" /\ task[u].status = 500
        /\ pool = PoolSize

\* A step of the handler running in task u.
HandlerStep(u) ==
    \/ Acquire(u)
    \/ UploadRead(u) \/ PdInsertDocument(u) \/ PdEmbedCall(u) \/ PdEmbed(u)
    \/ PdInsertEmbedding(u) \/ UploadReturn(u)
    \/ GetSelect(u) \/ DeleteExecute(u)
    \/ SearchEmbedCall(u) \/ SearchEmbed(u) \/ SearchFetch(u)
    \/ LogInsertQuery(u) \/ LogInsertResponse(u) \/ SearchReturn(u)

\* C18: no operation blocks the whole process: while one request is computing
\* embeddings, every other request in flight can take its next step.
C18_EmbeddingDoesNotBlock ==
    \A t, u \in Tasks :
        (t # u /\ Computing(t) /\ ~Free(u)) => ENABLED HandlerStep(u)

\* C20: whenever POST /documents/upload has answered 400 or 500, the request
\* has left no document row and no embedding row in the store, also when the
\* failure came after process_document had returned.
C20_UploadErrorLeavesNothing ==
    \A t \in Tasks :
        (Done(t) /\ task[t].kind = "upload" /\ task[t].status \in {400, 500})
        => /\ ~DocumentExists(task[t].document_id)
           /\ \A e \in embeddings : e.document_id # task[t].document_id

\* C21: query logging is all-or-nothing: once POST /search/query has answered
\* 500, no Query row written by that request is in the store, and the Query
\* row of a finished search has exactly as many Response rows as the search
\* returned results.
C21_LoggingAllOrNothing ==
    \A t \in Tasks :
        (Done(t) /\ task[t].kind = "search")
        => /\ task[t].status = 500
                => \A q \in queries : q.id # task[t].query_id
           /\ \A q \in queries :
                q.id = task[t].query_id
                => Cardinality({r \in responses : r.query_id = q.id})
                     = Len(task[t].rows)

RECURSIVE Concat(_)
\* The concatenation of a sequence of texts, in order.
Concat(texts) ==
    IF texts = <<>> THEN <<>> ELSE Head(texts) \o Concat(Tail(texts))

\* The texts text[a:b] with 0 <= a < b <= len(text): the non-empty substrings.
Substrings(text) ==
    {SubSeq(text, a + 1, b) : <<a, b>> \in {p \in (0..Len(text)) \X (0..Len(text)) :
                                               p[1] < p[2]}}

\* The chunking loop is sequential code: a step it can take, it takes.
ChunkFairSpec == ChunkSpec /\ WF_vars(ChunkNext)

\* C22: with 0 <= overlap O < chunk_size C the call returns; the first C - O
\* characters of each chunk (the whole chunk when it is shorter), joined in
\* order, are the input text; and every chunk is a non-empty substring of the
\* text of at most C characters.
C22_LosesNoText ==
    /\ [](chunker.overlap < chunker.chunk_size => <>Returned)
    /\ []((chunker.overlap < chunker.chunk_size /\ Returned)
            => /\ Len(chunker.chunks) < MaxPasses
               /\ Concat([i \in 1..Len(chunker.chunks) |->
                             FirstChars(chunker.chunks[i],
                                        chunker.chunk_size - chunker.overlap)])
                    = chunker.text
               /\ \A i \in 1..Len(chunker.chunks) :
                     /\ chunker.chunks[i] \in Substrings(chunker.text)
                     /\ Len(chunker.chunks[i]) <= chunker.chunk_size)

\* A call with 0 < overlap < chunk_size on a text of two different letters has
\* returned three chunks, the first of them chunk_size long.
C22_Witness ==
    /\ Returned
    /\ 0 < chunker.overlap /\ chunker.overlap < chunker.chunk_size
    /\ Len(chunker.chunks) = 3
    /\ Len(chunker.chunks[1]) = chunker.chunk_size
    /\ \E i, j \in 1..Len(chunker.text) : chunker.text[i] # chunker.text[j]

====
